---- MODULE Spec2Model ----
(***************************************************************************)
(* Model of the timesheet interpretation pipeline of src/app.py            *)
(* (process_image, lines 136-236) and of its helper correct_time_format.   *)
(*                                                                         *)
(* Representation.  A Python str is a sequence of one-character strings,   *)
(* so "900" is <<"9","0","0">>.  A Python dict is a sequence of            *)
(* <<key, value>> pairs in insertion order.  Hours are kept as a whole     *)
(* number of quarter hours: the float h of the code is Quarters/4, since   *)
(* every value the code stores is round(x)/4.  Seconds are integers (the   *)
(* code's floats hold whole seconds).  A datetime is the number of seconds *)
(* since 1900-01-01 00:00, the date strptime("%H:%M") fills in.            *)
(* Clock times have whole minutes, so sec/900 is never within 1/30 of a    *)
(* half and the float arithmetic of the rounding is exact.  Characters are *)
(* ASCII; the only white space is the space.                               *)
(***************************************************************************)
EXTENDS Integers, Sequences, FiniteSets, TLC

VARIABLES
    Blocks,          \* response["Blocks"], the input of one request
    pc,              \* position of the handler
    month_year,      \* None or the label found by the date scan
    cells,           \* dict row -> (dict column -> text)
    row_i,           \* number of entries of cells.items() already iterated
    weekly_totals,   \* dict name -> quarter hours
    daily_hours,     \* dict name -> (dict column -> quarter hours)
    top_performers,  \* list of names
    summary,         \* the record handed to jsonify, or None
    call,            \* a single call of one helper: [fn, arg], or None
    ret              \* the value that call returned, or None

vars == <<Blocks, pc, month_year, cells, row_i, weekly_totals, daily_hours,
          top_performers, summary, call, ret>>

\* None, and every other empty value of the code
None == <<>>

----------------------------------------------------------------------------
(* Characters and strings *)

DigitChars == <<"0","1","2","3","4","5","6","7","8","9">>
LowerChars == <<"a","b","c","d","e","f","g","h","i","j","k","l","m",
                "n","o","p","q","r","s","t","u","v","w","x","y","z">>
UpperChars == <<"A","B","C","D","E","F","G","H","I","J","K","L","M",
                "N","O","P","Q","R","S","T","U","V","W","X","Y","Z">>

Range(s) == {s[i] : i \in DOMAIN s}

IndexOf(s, ch) == CHOOSE i \in DOMAIN s : s[i] = ch

DigitSet == Range(DigitChars)
LowerSet == Range(LowerChars)
WordCharSet == Range(DigitChars) \cup Range(LowerChars) \cup Range(UpperChars) \cup {"_"}

\* \d of the re module, on the characters of the model
IsDigit(ch) == ch \in DigitSet

\* \s of the re module and the characters str.strip() removes
IsSpace(ch) == ch = " "

\* \w of the re module: the characters on the word side of \b
IsWordChar(ch) == ch \in WordCharSet

\* int() of a string of digits
RECURSIVE int(_)
int(s) ==
    IF s = <<>> THEN 0
    ELSE 10 * int(SubSeq(s, 1, Len(s) - 1)) + (IndexOf(DigitChars, s[Len(s)]) - 1)

\* str.upper()
UpperCh(ch) ==
    IF ch \in LowerSet THEN UpperChars[IndexOf(LowerChars, ch)] ELSE ch

upper(s) == [i \in DOMAIN s |-> UpperCh(s[i])]

\* str.strip()
RECURSIVE lstrip(_)
lstrip(s) ==
    IF s # <<>> /\ IsSpace(s[1]) THEN lstrip(Tail(s)) ELSE s

RECURSIVE rstrip(_)
rstrip(s) ==
    IF s # <<>> /\ IsSpace(s[Len(s)]) THEN rstrip(SubSeq(s, 1, Len(s) - 1)) ELSE s

strip(s) == lstrip(rstrip(s))

\* s[i:j] of Python, 0-based, end exclusive, clipped to the string
Slice(s, i, j) ==
    LET hi == IF j > Len(s) THEN Len(s) ELSE j
    IN  IF i >= hi THEN <<>> ELSE SubSeq(s, i + 1, hi)

\* s starts with the literal lit at 1-based position p
LitAt(s, p, lit) ==
    /\ p >= 1
    /\ p + Len(lit) - 1 <= Len(s)
    /\ \A k \in 1..Len(lit) : s[p + k - 1] = lit[k]

\* str.replace(wrong, right) for one-character strings
replace(s, wrong, right) == [i \in DOMAIN s |-> IF s[i] = wrong THEN right ELSE s[i]]

----------------------------------------------------------------------------
(* correct_time_format *)

subs == << <<"!","1">>, <<"I","1">>, <<"l","1">>, <<"|","1">>,
           <<"O","0">>, <<"o","0">>,
           <<"%",":">>, <<";",":">>, <<",",":">>, <<".",":">> >>

\* for wrong, right in subs.items(): text = text.replace(wrong, right)
RECURSIVE ApplySubs(_, _)
ApplySubs(text, k) ==
    IF k > Len(subs) THEN text
    ELSE ApplySubs(replace(text, subs[k][1], subs[k][2]), k + 1)

\* re.sub(r"\D", "", text)
StripNonDigits(text) == SelectSeq(text, IsDigit)

\* correct_time_format without the leading zero of the three-digit branch
correct_time_format_NoPad(text0) ==
    LET text   == ApplySubs(text0, 1)
        digits == StripNonDigits(text)
    IN  IF Len(digits) >= 4
            THEN Slice(digits, 0, 2) \o <<":">> \o Slice(digits, 2, 4)
        ELSE IF Len(digits) = 3
            THEN <<digits[1]>> \o <<":">> \o Slice(digits, 1, 3)
        ELSE text

correct_time_format(text0) ==
    LET text   == ApplySubs(text0, 1)
        digits == StripNonDigits(text)
    IN  IF Len(digits) >= 4
            THEN Slice(digits, 0, 2) \o <<":">> \o Slice(digits, 2, 4)
        ELSE IF Len(digits) = 3
            THEN <<"0", digits[1]>> \o <<":">> \o Slice(digits, 1, 3)
        ELSE text

\* re.match(r"^\d{1,2}:\d{2}$", part)
IsTimeFormat(part) ==
    \E h \in 1..2 :
        /\ Len(part) = h + 3
        /\ \A k \in 1..h : IsDigit(part[k])
        /\ part[h + 1] = ":"
        /\ IsDigit(part[h + 2])
        /\ IsDigit(part[h + 3])

----------------------------------------------------------------------------
(* Clock times and elapsed seconds *)

\* The hour and the minute of a token that passed IsTimeFormat
HourOf(tok) == int(SubSeq(tok, 1, Len(tok) - 3))
MinuteOf(tok) == int(SubSeq(tok, Len(tok) - 1, Len(tok)))

\* datetime.strptime(tok, "%H:%M") raises ValueError: %H takes 0..23 and
\* %M takes 0..59
RaisesValueError(tok) == ~(HourOf(tok) <= 23 /\ MinuteOf(tok) <= 59)

\* datetime.strptime(tok, "%H:%M") when it does not raise
strptime(tok) == HourOf(tok) * 3600 + MinuteOf(tok) * 60

\* timedelta(hours=12), in seconds
TwelveHours == 12 * 3600

\* The body of the try block for one pair: the seconds added to day_seconds
\* (0 when strptime raises and the except clause continues)
PairSeconds(startTok, endTok) ==
    IF RaisesValueError(startTok) \/ RaisesValueError(endTok) THEN 0
    ELSE LET start == strptime(startTok)
             end0  == strptime(endTok)
             end   == IF end0 <= start THEN end0 + TwelveHours ELSE end0
         IN  end - start

\* The pairing loop with a step of 1: every token but the first and the last
\* in two pairs
RECURSIVE PairLoopSliding(_, _, _)
PairLoopSliding(times, i, day_seconds) ==
    IF i >= Len(times) - 1 THEN day_seconds
    ELSE PairLoopSliding(times, i + 1,
                         day_seconds + PairSeconds(times[i + 1], times[i + 2]))

\* for i in range(0, len(times)-1, 2): ... day_seconds += diff
\* i is the 0-based index of the code
RECURSIVE PairLoop(_, _, _)
PairLoop(times, i, day_seconds) ==
    IF i >= Len(times) - 1 THEN day_seconds
    ELSE PairLoop(times, i + 2, day_seconds + PairSeconds(times[i + 1], times[i + 2]))

DaySeconds(times) == PairLoop(times, 0, 0)

\* round(n / d) of Python 3 for an integer n and d > 0: the nearest integer,
\* a tie going to the even one
round(n, d) ==
    LET q == n \div d
        r == n % d
    IN  IF 2 * r < d THEN q
        ELSE IF 2 * r > d THEN q + 1
        ELSE IF q % 2 = 0 THEN q ELSE q + 1

\* round((sec / 3600) * 4) / 4, as a number of quarter hours
QuarterHours(sec) == round(sec * 4, 3600)

----------------------------------------------------------------------------
(* Name cleanup and tokenization of a day cell *)

\* \b at the boundary before 1-based position p of s
WordBoundary(s, p) ==
    LET before == p > 1 /\ IsWordChar(s[p - 1])
        after  == p <= Len(s) /\ IsWordChar(s[p])
    IN  before # after

\* re.sub(r'\bIN\b', '', s), scanning from position p
RECURSIVE SubWordIN(_, _)
SubWordIN(s, p) ==
    IF p > Len(s) THEN <<>>
    ELSE IF LitAt(s, p, <<"I","N">>) /\ WordBoundary(s, p) /\ WordBoundary(s, p + 2)
        THEN SubWordIN(s, p + 2)
    ELSE <<s[p]>> \o SubWordIN(s, p + 1)

\* The name cleanup without the removal of IN
CleanNameKeepIN(name_raw) == strip(name_raw)

CleanName(name_raw) == strip(SubWordIN(name_raw, 1))

HeaderWords == { <<"D","A","T","E">>, <<"D","A","Y">>, <<"I","N">>, <<"O","U","T">> }

\* The header test without upper(): case-sensitive
IsSkippedNameCaseSensitive(name) == name = <<>> \/ name \in HeaderWords

\* if not name or name.upper() in ("DATE", "DAY", "IN", "OUT"): continue
IsSkippedName(name) == name = <<>> \/ upper(name) \in HeaderWords

\* re.sub(r'IN(?=\d)', 'IN ', s), scanning from position p
RECURSIVE SubINDigit(_, _)
SubINDigit(s, p) ==
    IF p > Len(s) THEN <<>>
    ELSE IF LitAt(s, p, <<"I","N">>) /\ p + 2 <= Len(s) /\ IsDigit(s[p + 2])
        THEN <<"I","N"," ">> \o SubINDigit(s, p + 2)
    ELSE <<s[p]>> \o SubINDigit(s, p + 1)

\* re.sub(r'(?<=\d)OUT', ' OUT', s), scanning from position p
RECURSIVE SubDigitOUT(_, _)
SubDigitOUT(s, p) ==
    IF p > Len(s) THEN <<>>
    ELSE IF LitAt(s, p, <<"O","U","T">>) /\ p > 1 /\ IsDigit(s[p - 1])
        THEN <<" ","O","U","T">> \o SubDigitOUT(s, p + 3)
    ELSE <<s[p]>> \o SubDigitOUT(s, p + 1)

\* re.split(r'\s+', s): cur is the part being read, p the scan position
RECURSIVE SplitWs(_, _, _)
SplitWs(s, p, cur) ==
    IF p > Len(s) THEN <<cur>>
    ELSE IF IsSpace(s[p])
        THEN IF p > 1 /\ IsSpace(s[p - 1]) THEN SplitWs(s, p + 1, cur)
             ELSE <<cur>> \o SplitWs(s, p + 1, <<>>)
    ELSE SplitWs(s, p + 1, Append(cur, s[p]))

split(s) == SplitWs(s, 1, <<>>)

\* for part in parts: part = correct_time_format(part); keep it when it
\* matches the time format
RECURSIVE CollectTimes(_)
CollectTimes(parts) ==
    IF parts = <<>> THEN <<>>
    ELSE LET part == correct_time_format(Head(parts))
         IN  (IF IsTimeFormat(part) THEN <<part>> ELSE <<>>) \o CollectTimes(Tail(parts))

\* lines 199-207: the accepted time tokens of one day cell
CellTimes(entry0) ==
    LET entry == SubDigitOUT(SubINDigit(entry0, 1), 1)
        parts == split(entry)
    IN  CollectTimes(parts)

----------------------------------------------------------------------------
(* Date scan, lines 136-151 *)

months == <<"January", "February", "March", "April", "May", "June",
            "July", "August", "September", "October", "November", "December">>

\* n digits stand at position p of s
DigitsAt(s, p, n) ==
    /\ p + n - 1 <= Len(s)
    /\ \A k \in 0..(n - 1) : IsDigit(s[p + k])

\* \s* from position p: the position of the first character that is no space
RECURSIVE SkipSpaces(_, _)
SkipSpaces(s, p) ==
    IF p <= Len(s) /\ IsSpace(s[p]) THEN SkipSpaces(s, p + 1) ELSE p

\* \s*/\s* from position p: the position after it, or 0 when it does not match
SlashAt(s, p) ==
    LET q == SkipSpaces(s, p)
    IN  IF q <= Len(s) /\ s[q] = "/" THEN SkipSpaces(s, q + 1) ELSE 0

\* (\d{n})\s*/\s*(\d{2}) from position p: <<month_num, year_suffix>> or <<>>
MatchMonth(s, p, n) ==
    IF ~DigitsAt(s, p, n) THEN <<>>
    ELSE LET q == SlashAt(s, p + n)
         IN  IF q # 0 /\ DigitsAt(s, q, 2)
                 THEN <<SubSeq(s, p, p + n - 1), SubSeq(s, q, q + 1)>>
             ELSE <<>>

\* (\d{n})\s*/\s*(\d{1,2})\s*/\s*(\d{2}) from position p, the month greedy
MatchDay(s, p, n) ==
    IF ~DigitsAt(s, p, n) THEN <<>>
    ELSE LET q == SlashAt(s, p + n)
         IN  IF q = 0 THEN <<>>
             ELSE LET m2 == MatchMonth(s, q, 2)
                      m  == IF m2 # <<>> THEN m2 ELSE MatchMonth(s, q, 1)
                  IN  IF m = <<>> THEN <<>> ELSE <<SubSeq(s, p, p + n - 1)>> \o m

\* re.search(r"(\d{1,2})\s*/\s*(\d{1,2})\s*/\s*(\d{2})", s) from position p:
\* match.groups() of the leftmost match, the day greedy, or <<>> for no match
RECURSIVE search(_, _)
search(s, p) ==
    IF p > Len(s) THEN <<>>
    ELSE LET d2 == MatchDay(s, p, 2)
             m  == IF d2 # <<>> THEN d2 ELSE MatchDay(s, p, 1)
         IN  IF m # <<>> THEN m ELSE search(s, p + 1)

\* block.get(key, default)
Get(block, key, default) == IF key \in DOMAIN block THEN block[key] ELSE default

\* f"{months[mi-1]} 20{year_suffix}": the month name, then the year after
\* the space
MonthLabel(mi, year_suffix) == <<months[mi], <<"2","0">> \o year_suffix>>

\* The date scan without the break: the last valid date wins
RECURSIVE ScanDateLastWins(_, _)
ScanDateLastWins(blocks, i) ==
    IF i > Len(blocks) THEN None
    ELSE LET text  == Get(blocks[i], "Text", <<>>)
             match == search(text, 1)
             rest  == ScanDateLastWins(blocks, i + 1)
         IN  IF rest # None THEN rest
             ELSE IF text # <<>> /\ match # <<>>
                     /\ 1 <= int(match[2]) /\ int(match[2]) <= 12
                 THEN MonthLabel(int(match[2]), match[3])
             ELSE None

\* The loop of lines 138-151 from the i-th block on: the value of month_year
\* when the loop ends
RECURSIVE ScanDate(_, _)
ScanDate(blocks, i) ==
    IF i > Len(blocks) THEN None
    ELSE LET text  == Get(blocks[i], "Text", <<>>)
             match == search(text, 1)
         IN  IF text = <<>> THEN ScanDate(blocks, i + 1)
             ELSE IF match # <<>> /\ 1 <= int(match[2]) /\ int(match[2]) <= 12
                 THEN MonthLabel(int(match[2]), match[3])
             ELSE ScanDate(blocks, i + 1)

----------------------------------------------------------------------------
(* Python dicts: sequences of <<key, value>> in insertion order *)

DictKeys(d) == {d[i][1] : i \in DOMAIN d}

DictGet(d, k) == d[CHOOSE i \in DOMAIN d : d[i][1] = k][2]

\* d[k] = v: an existing key keeps its place
DictSet(d, k, v) ==
    IF k \in DictKeys(d)
        THEN [i \in DOMAIN d |-> IF d[i][1] = k THEN <<k, v>> ELSE d[i]]
    ELSE Append(d, <<k, v>>)

\* A store that keeps the entry a key already has
StoreRowKeepFirst(d, name, v) == IF name \in DictKeys(d) THEN d ELSE Append(d, <<name, v>>)

\* weekly_totals[name] = ... and daily_hours[name] = ..., lines 224-225
StoreRow(d, name, v) == DictSet(d, name, v)

----------------------------------------------------------------------------
(* Cell table, lines 168-181 *)

\* next((b for b in response["Blocks"] if b["Id"] == cid), {})
FindBlock(blocks, cid) ==
    IF \E i \in DOMAIN blocks : blocks[i].Id = cid
        THEN blocks[CHOOSE i \in DOMAIN blocks :
                        /\ blocks[i].Id = cid
                        /\ \A j \in 1..(i - 1) : blocks[j].Id # cid]
    ELSE [BlockType |-> "missing"]

\* for cid in rel["Ids"]: ... txt += child.get("Text", '') + ' '
RECURSIVE ChildText(_, _, _)
ChildText(blocks, ids, txt) ==
    IF ids = <<>> THEN txt
    ELSE LET child == FindBlock(blocks, Head(ids))
         IN  ChildText(blocks, Tail(ids),
                       IF child.BlockType = "WORD"
                           THEN txt \o Get(child, "Text", <<>>) \o <<" ">>
                       ELSE txt)

\* for rel in block["Relationships"]: if rel["Type"] == "CHILD": ...
RECURSIVE RelText(_, _, _)
RelText(blocks, rels, txt) ==
    IF rels = <<>> THEN txt
    ELSE RelText(blocks, Tail(rels),
                 IF Head(rels).Type = "CHILD"
                     THEN ChildText(blocks, Head(rels).Ids, txt)
                 ELSE txt)

CellText(blocks, block) ==
    strip(RelText(blocks, Get(block, "Relationships", <<>>), <<>>))

\* cells.setdefault(r, {})[c] = txt: a column dict is a function
PutCell(cs, r, c, txt) ==
    LET old == IF r \in DictKeys(cs) THEN DictGet(cs, r) ELSE <<>>
        new == [k \in DOMAIN old \cup {c} |-> IF k = c THEN txt ELSE old[k]]
    IN  DictSet(cs, r, new)

\* The loop of lines 170-181 from the i-th block on
RECURSIVE ParseCells(_, _, _)
ParseCells(blocks, i, cs) ==
    IF i > Len(blocks) THEN cs
    ELSE LET block == blocks[i]
         IN  ParseCells(blocks, i + 1,
                        IF block.BlockType = "CELL"
                            THEN PutCell(cs, block.RowIndex, block.ColumnIndex,
                                         CellText(blocks, block))
                        ELSE cs)

----------------------------------------------------------------------------
(* One row, lines 188-225 *)

\* sorted(cols.keys()) without column 1, as the set the loop visits
DayColumns(cols) == DOMAIN cols \ {1}

\* daily_seconds after the column loop
DailySeconds(cols) == [c \in DayColumns(cols) |-> DaySeconds(CellTimes(cols[c]))]

\* total_seconds after the column loop
RECURSIVE SumOver(_, _)
SumOver(f, S) ==
    IF S = {} THEN 0
    ELSE LET c == CHOOSE x \in S : \A y \in S : x <= y
         IN  f[c] + SumOver(f, S \ {c})

TotalSeconds(cols) == SumOver(DailySeconds(cols), DayColumns(cols))

RowName(cols) == CleanName(strip(IF 1 \in DOMAIN cols THEN cols[1] ELSE <<>>))

\* {day: round((sec / 3600) * 4) / 4 for day, sec in daily_seconds.items()}
RowDailyHours(cols) ==
    LET daily_seconds == DailySeconds(cols)
    IN  [c \in DOMAIN daily_seconds |-> QuarterHours(daily_seconds[c])]

RowWeeklyTotal(cols) == QuarterHours(TotalSeconds(cols))

----------------------------------------------------------------------------
(* Top performers, lines 227-229 *)

\* max(weekly_totals.values()) if weekly_totals else 0
MaxHours(wt) ==
    IF wt = <<>> THEN 0
    ELSE LET vals == {wt[i][2] : i \in DOMAIN wt}
         IN  CHOOSE m \in vals : \A v \in vals : v <= m

IsTop(h, max_hours) == h = max_hours /\ h > 0

\* [n for n, h in weekly_totals.items() if h == max_hours and h > 0]
RECURSIVE TopFrom(_, _)
TopFrom(wt, max_hours) ==
    IF wt = <<>> THEN <<>>
    ELSE (IF IsTop(Head(wt)[2], max_hours) THEN <<Head(wt)[1]>> ELSE <<>>)
         \o TopFrom(Tail(wt), max_hours)

TopPerformers(wt) == TopFrom(wt, MaxHours(wt))

----------------------------------------------------------------------------
(* Inputs: the block lists the document analysis may return *)

\* Bounds of the inputs
MaxRows == 2
MaxDateBlocks == 2
MaxNameWords == 2
MaxTokLen == 5
MaxTimes == 3

\* All sequences over S of length at most n
SeqsUpTo(S, n) == UNION {[1..k -> S] : k \in 0..n}

\* Block ids are <<row, column, k>>: <<0, 0, k>> the k-th LINE block,
\* <<r, c, 0>> the CELL block and <<r, c, k>> its k-th WORD block
LineBlocks(lines) ==
    [k \in DOMAIN lines |->
        [Id |-> <<0, 0, k>>, BlockType |-> "LINE", Text |-> lines[k]]]

WordBlocks(r, c, words) ==
    [k \in DOMAIN words |->
        [Id |-> <<r, c, k>>, BlockType |-> "WORD", Text |-> words[k]]]

\* A cell without words has no Relationships key
CellBlock(r, c, words) ==
    IF words = <<>>
        THEN [Id |-> <<r, c, 0>>, BlockType |-> "CELL", RowIndex |-> r, ColumnIndex |-> c]
    ELSE [Id |-> <<r, c, 0>>, BlockType |-> "CELL", RowIndex |-> r, ColumnIndex |-> c,
          Relationships |-> << [Type |-> "CHILD",
                                Ids |-> [k \in DOMAIN words |-> <<r, c, k>>]] >>]

RECURSIVE RowBlocks(_, _, _)
RowBlocks(r, row, c) ==
    IF c > Len(row) THEN <<>>
    ELSE <<CellBlock(r, c, row[c])>> \o WordBlocks(r, c, row[c]) \o RowBlocks(r, row, c + 1)

RECURSIVE TableBlocks(_, _)
TableBlocks(rows, r) ==
    IF r > Len(rows) THEN <<>>
    ELSE RowBlocks(r, rows[r], 1) \o TableBlocks(rows, r + 1)

\* lines: the texts of the LINE blocks; rows: per row the cells, per cell the
\* words
MakeBlocks(lines, rows) == LineBlocks(lines) \o TableBlocks(rows, 1)

\* Words of the samples
w900   == <<"9","0","0">>
w907   == <<"9","0","7">>
w1700  == <<"1","7","0","0">>
w2300  == <<"2","3","0","0">>
w0100  == <<"0","1","0","0">>
wIN    == <<"I","N">>
wOUT   == <<"O","U","T">>
wJOHN  == <<"J","O","H","N">>
wMARY  == <<"M","A","R","Y">>
wANN   == <<"A","N","N">>

\* Name cells: JOHN, MARY IN and JOHN IN (the name JOHN again)
NameSamples == { <<wJOHN>>, <<wMARY, wIN>>, <<wJOHN, wIN>> }

\* The day cells of a row: 8 h; twice 7 min; 23:00 to 01:00; labels only and
\* an empty cell
DaySamples ==
    { << <<w900, w1700>> >>,
      << <<w900, w907>>, <<w900, w907>> >>,
      << <<w2300, w0100>> >>,
      << <<wIN, wOUT>>, <<>> >> }

\* Two header rows, Date and IN, and a row with three tokens in one cell and
\* fused labels in the next
HeaderRow == << << <<"D","a","t","e">> >>, <<wIN, wOUT>>, <<wIN, wOUT>> >>

InRow == << <<wIN>>, <<w900, w1700>> >>

FusedRow ==
    << <<wANN>>,
       << <<"9",":","0","0">>, <<"1","7",":","0","0">>, <<"1","8",":","3","0">> >>,
       << <<"I","N","9","0","0">>, <<"1","7","0","0","O","U","T">> >> >>

RowSamples ==
    { <<n>> \o d : n \in NameSamples, d \in DaySamples } \cup {HeaderRow, InRow, FusedRow}

Timesheet051123 ==
    <<"T","i","m","e","s","h","e","e","t"," ","0","5","/","1","1","/","2","3">>

\* Tables of up to MaxRows rows under a dated line
IsTableInput(blocks) ==
    \E rows \in SeqsUpTo(RowSamples, MaxRows) :
        blocks = MakeBlocks(<<Timesheet051123>>, rows)

\* Texts of LINE blocks: a date, a date with month 13, an invalid month
\* followed by a valid date, a date with spaces and one-digit fields, no
\* date, and the empty text
DateTextSamples ==
    { Timesheet051123,
      <<"0","5","/","1","3","/","2","3">>,
      <<"9","/","0","/","2","4"," ","1","/","2","/","2","5">>,
      <<"7"," ","/"," ","3","/","2","0","2","6">>,
      <<"W","e","e","k"," ","1","/","2">>,
      <<>> }

JohnRow == << <<wJOHN>>, <<w900, w1700>> >>

\* The row of JOHN under up to MaxDateBlocks lines
IsDateInput(blocks) ==
    \E lines \in SeqsUpTo(DateTextSamples, MaxDateBlocks) :
        blocks = MakeBlocks(lines, <<JohnRow>>)

\* Words of a name cell
NameWordSamples ==
    { wIN, <<"i","n">>, <<"I","N","N">>, <<"-","I","N">>, <<"_","I","N">>,
      <<"d","a","y">>, wOUT, wANN, <<" ">> }

\* One row whose name cell has up to MaxNameWords words
IsNameInput(blocks) ==
    \E words \in SeqsUpTo(NameWordSamples, MaxNameWords) :
        blocks = MakeBlocks(<<>>, << <<words, <<w900, w1700>>>> >>)

\* A malformed graph: a child id that no block has, a child that is no WORD,
\* a relationship that is no CHILD, two cells at the same row and column
GraphInput ==
    << [Id |-> <<1, 1, 0>>, BlockType |-> "CELL", RowIndex |-> 1, ColumnIndex |-> 1,
        Relationships |-> << [Type |-> "MERGED_CELL", Ids |-> << <<1, 2, 1>> >>],
                             [Type |-> "CHILD",
                              Ids |-> << <<9, 9, 9>>, <<1, 1, 1>>, <<1, 2, 0>> >>] >>],
       [Id |-> <<1, 1, 1>>, BlockType |-> "WORD", Text |-> wANN],
       [Id |-> <<1, 2, 0>>, BlockType |-> "CELL", RowIndex |-> 1, ColumnIndex |-> 2,
        Relationships |-> << [Type |-> "CHILD", Ids |-> << <<1, 2, 1>> >>] >>],
       [Id |-> <<1, 2, 1>>, BlockType |-> "WORD", Text |-> w900],
       [Id |-> <<1, 2, 2>>, BlockType |-> "CELL", RowIndex |-> 1, ColumnIndex |-> 2,
        Relationships |-> << [Type |-> "CHILD",
                              Ids |-> << <<1, 2, 1>>, <<1, 2, 3>> >>] >>],
       [Id |-> <<1, 2, 3>>, BlockType |-> "WORD", Text |-> w1700] >>

IsInput(blocks) ==
    \/ IsTableInput(blocks)
    \/ IsDateInput(blocks)
    \/ IsNameInput(blocks)
    \/ blocks = GraphInput

----------------------------------------------------------------------------
(* The handler process_image, from the response of analyze_document on *)

NoCall == [fn |-> "none", arg |-> <<>>]

Init ==
    /\ IsInput(Blocks)
    /\ pc = "date"
    /\ month_year = None
    /\ cells = <<>>
    /\ row_i = 0
    /\ weekly_totals = <<>>
    /\ daily_hours = <<>>
    /\ top_performers = <<>>
    /\ summary = None
    /\ call = NoCall
    /\ ret = None

\* lines 136-151
ExtractMonth ==
    /\ pc = "date"
    /\ month_year' = ScanDate(Blocks, 1)
    /\ pc' = "cells"
    /\ UNCHANGED <<Blocks, cells, row_i, weekly_totals, daily_hours,
                   top_performers, summary, call, ret>>

\* lines 168-185
ParseCellTable ==
    /\ pc = "cells"
    /\ cells' = ParseCells(Blocks, 1, <<>>)
    /\ row_i' = 0
    /\ weekly_totals' = <<>>
    /\ daily_hours' = <<>>
    /\ pc' = "rows"
    /\ UNCHANGED <<Blocks, month_year, top_performers, summary, call, ret>>

\* lines 187-191: an iteration of the row loop that ends at continue
SkipRow ==
    /\ pc = "rows"
    /\ row_i < Len(cells)
    /\ IsSkippedName(RowName(cells[row_i + 1][2]))
    /\ row_i' = row_i + 1
    /\ UNCHANGED <<Blocks, pc, month_year, cells, weekly_totals, daily_hours,
                   top_performers, summary, call, ret>>

\* lines 187-225: an iteration of the row loop that stores the row
ProcessRow ==
    /\ pc = "rows"
    /\ row_i < Len(cells)
    /\ LET cols == cells[row_i + 1][2]
           name == RowName(cols)
       IN  /\ ~IsSkippedName(name)
           /\ weekly_totals' = StoreRow(weekly_totals, name, RowWeeklyTotal(cols))
           /\ daily_hours' = StoreRow(daily_hours, name, RowDailyHours(cols))
    /\ row_i' = row_i + 1
    /\ UNCHANGED <<Blocks, pc, month_year, cells, top_performers, summary, call, ret>>

\* lines 227-229
FindTopPerformers ==
    /\ pc = "rows"
    /\ row_i = Len(cells)
    /\ top_performers' = TopPerformers(weekly_totals)
    /\ pc' = "top"
    /\ UNCHANGED <<Blocks, month_year, cells, row_i, weekly_totals, daily_hours,
                   summary, call, ret>>

Unknown == <<"Unknown">>

\* lines 231-238
Respond ==
    /\ pc = "top"
    /\ summary' = [month          |-> IF month_year = None THEN Unknown ELSE month_year,
                   top_performers |-> top_performers,
                   weekly_totals  |-> weekly_totals,
                   daily_hours    |-> daily_hours]
    /\ pc' = "done"
    /\ UNCHANGED <<Blocks, month_year, cells, row_i, weekly_totals, daily_hours,
                   top_performers, call, ret>>

Next ==
    \/ ExtractMonth
    \/ ParseCellTable
    \/ SkipRow
    \/ ProcessRow
    \/ FindTopPerformers
    \/ Respond

Spec == Init /\ [][Next]_vars

----------------------------------------------------------------------------
(* The helpers called on their own: one call, then its return *)

\* Tokens over the characters 1 9 O I : N, up to MaxTokLen long
Tokens == SeqsUpTo({"1", "9", "O", "I", ":", "N"}, MaxTokLen)

\* The token HH:MM of a clock time
TwoDigits(n) == <<DigitChars[(n \div 10) + 1], DigitChars[(n % 10) + 1]>>
ClockToken(h, m) == TwoDigits(h) \o <<":">> \o TwoDigits(m)

ClockTokens == { ClockToken(h, m) : h \in 0..23, m \in {0, 7, 30, 59} }

\* Accepted time tokens of a cell: 9:00 17:00 18:30 23:00 01:00 09:07, and
\* 24:00 and 9:60, which strptime rejects
TimeSamples ==
    { <<"9",":","0","0">>, ClockToken(17, 0), ClockToken(18, 30), ClockToken(23, 0),
      ClockToken(1, 0), ClockToken(9, 7), ClockToken(24, 0), <<"9",":","6","0">> }

Calls ==
    {[fn |-> "correct_time_format", arg |-> t] : t \in Tokens}
    \cup {[fn |-> "PairSeconds", arg |-> <<a, b>>] : a \in ClockTokens, b \in ClockTokens}
    \cup {[fn |-> "DaySeconds", arg |-> ts] : ts \in SeqsUpTo(TimeSamples, MaxTimes)}

InitFn ==
    /\ Blocks = <<>>
    /\ pc = "call"
    /\ month_year = None
    /\ cells = <<>>
    /\ row_i = 0
    /\ weekly_totals = <<>>
    /\ daily_hours = <<>>
    /\ top_performers = <<>>
    /\ summary = None
    /\ call \in Calls
    /\ ret = None

Return(v) ==
    /\ ret' = v
    /\ pc' = "returned"
    /\ UNCHANGED <<Blocks, month_year, cells, row_i, weekly_totals, daily_hours,
                   top_performers, summary, call>>

\* part = correct_time_format(part), line 205
CallCorrectTimeFormat ==
    /\ pc = "call"
    /\ call.fn = "correct_time_format"
    /\ Return(correct_time_format(call.arg))

\* one pass of the try block, lines 211-219
CallPairSeconds ==
    /\ pc = "call"
    /\ call.fn = "PairSeconds"
    /\ Return(PairSeconds(call.arg[1], call.arg[2]))

\* the pairing loop of one cell, lines 209-219
CallDaySeconds ==
    /\ pc = "call"
    /\ call.fn = "DaySeconds"
    /\ Return(DaySeconds(call.arg))

NextFn ==
    \/ CallCorrectTimeFormat
    \/ CallPairSeconds
    \/ CallDaySeconds

SpecFn == InitFn /\ [][NextFn]_vars

----------------------------------------------------------------------------
(* Properties of the summary *)

Done == pc = "done"

\* The sum of the values of a column dict
RECURSIVE SumValues(_)
SumValues(f) ==
    IF DOMAIN f = {} THEN 0
    ELSE LET c == CHOOSE x \in DOMAIN f : TRUE
         IN  f[c] + SumValues([k \in DOMAIN f \ {c} |-> f[k]])

Names(d) == {d[i][1] : i \in DOMAIN d}
Values(d) == {d[i][2] : i \in DOMAIN d}

\* C1: in every summary, for every employee name, weekly_totals[name] equals
\* the sum of the values of daily_hours[name], both after quarter-hour
\* rounding.
C1_WeeklyIsSumOfDaily ==
    Done =>
        \A i \in DOMAIN summary.weekly_totals :
            LET name == summary.weekly_totals[i][1]
            IN  /\ name \in Names(summary.daily_hours)
                /\ summary.weekly_totals[i][2]
                       = SumValues(DictGet(summary.daily_hours, name))

\* C3: top_performers is empty if and only if no row yields an employee or
\* every weekly total is zero.
C3_TopEmptyIffAllZero ==
    Done =>
        ((summary.top_performers = <<>>)
            <=> (\/ summary.weekly_totals = <<>>
                 \/ \A v \in Values(summary.weekly_totals) : v = 0))

\* The largest weekly total of a non-empty summary
MaxTotal(wt) == CHOOSE m \in Values(wt) : \A v \in Values(wt) : v <= m

\* C5: top_performers is exactly the set of names whose weekly total equals
\* the maximum weekly total, and is empty when that maximum is zero (or when
\* there is no employee).
C5_TopIsArgMax ==
    Done =>
        LET wt == summary.weekly_totals
        IN  Range(summary.top_performers)
                = IF wt = <<>> \/ MaxTotal(wt) = 0 THEN {}
                  ELSE {wt[i][1] : i \in {j \in DOMAIN wt : wt[j][2] = MaxTotal(wt)}}

----------------------------------------------------------------------------
(* Properties of the helpers *)

Returned == pc = "returned"

\* C2: for every pair of valid clock times with end <= start, the elapsed
\* seconds added for the pair equal (end + 12 h) - start, and that value is
\* never negative.
C2_RolloverLaw ==
    (Returned /\ call.fn = "PairSeconds") =>
        LET start == strptime(call.arg[1])
            end   == strptime(call.arg[2])
        IN  end <= start => (ret = (end + 12 * 3600) - start /\ ret >= 0)

\* The sum over the pairs (t[1],t[2]), (t[3],t[4]), ... of a token list
RECURSIVE PairwiseSum(_)
PairwiseSum(t) ==
    IF Len(t) < 2 THEN 0
    ELSE PairSeconds(t[1], t[2]) + PairwiseSum(SubSeq(t, 3, Len(t)))

SubChar(ch) ==
    IF ch \in {"!", "I", "l", "|"} THEN "1"
    ELSE IF ch \in {"O", "o"} THEN "0"
    ELSE IF ch \in {"%", ";", ",", "."} THEN ":"
    ELSE ch

Substituted(tok) == [i \in DOMAIN tok |-> SubChar(tok[i])]

\* The digit string D of a token
DigitString(tok) == SelectSeq(Substituted(tok), IsDigit)

\* The result the policy gives a token with three digits or more
PolicyOfLongTokens(D, result) ==
    /\ Len(D) >= 4 => result = <<D[1], D[2], ":", D[3], D[4]>>
    /\ Len(D) = 3 => result = <<"0", D[1], ":", D[2], D[3]>>

\* C8 as stated: with fewer than three digits the token is returned
\* unchanged, the original token, and fails the time-format match.
C8_DigitCountPolicy ==
    (Returned /\ call.fn = "correct_time_format") =>
        LET D == DigitString(call.arg)
        IN  /\ PolicyOfLongTokens(D, ret)
            /\ Len(D) < 3 => (ret = call.arg /\ ~IsTimeFormat(ret))

\* C8 amended: with fewer than three digits the token is returned with the
\* substitution table applied, and fails the time-format match.
C8_DigitCountPolicyAmended ==
    (Returned /\ call.fn = "correct_time_format") =>
        LET D == DigitString(call.arg)
        IN  /\ PolicyOfLongTokens(D, ret)
            /\ Len(D) < 3 => (ret = Substituted(call.arg) /\ ~IsTimeFormat(ret))

\* C8 witness: a token with fewer than three digits that comes back changed
C8_Witness ==
    /\ Returned
    /\ call.fn = "correct_time_format"
    /\ Len(DigitString(call.arg)) < 3
    /\ ret # call.arg

----------------------------------------------------------------------------
(* Properties of the rows and of the date *)

\* The end-to-end scenario: the row JOHN | 900 1700, the row MARY IN with
\* the labels IN OUT and an empty cell, under the line Timesheet 05/11/23
ScenarioInput ==
    MakeBlocks(<<Timesheet051123>>,
               << << <<wJOHN>>, <<w900, w1700>> >>,
                  << <<wMARY, wIN>>, <<wIN, wOUT>>, <<>> >> >>)

November2023 == <<"November", <<"2","0","2","3">>>>

\* John's part of the scenario: one interval worth 8.0 hours
JohnHasEightHours ==
    /\ wJOHN \in Names(summary.weekly_totals)
    /\ DictGet(summary.weekly_totals, wJOHN) = 8 * 4
    /\ wJOHN \in Names(summary.daily_hours)
    /\ DictGet(summary.daily_hours, wJOHN) = [c \in {2} |-> 8 * 4]

\* C4 as stated: JOHN has 8.0 hours, the second row has no entry at all in
\* weekly_totals and daily_hours, and the month is November 2023.
C4_Scenario ==
    (Done /\ Blocks = ScenarioInput) =>
        /\ JohnHasEightHours
        /\ Names(summary.weekly_totals) = {wJOHN}
        /\ Names(summary.daily_hours) = {wJOHN}
        /\ summary.month = November2023

\* C4 amended: JOHN has 8.0 hours, the second row is kept under its cleaned
\* name MARY with a weekly total of 0.0 and 0.0 hours in each of its day
\* columns, and the month is November 2023.
C4_ScenarioAmended ==
    (Done /\ Blocks = ScenarioInput) =>
        /\ JohnHasEightHours
        /\ Names(summary.weekly_totals) = {wJOHN, wMARY}
        /\ Names(summary.daily_hours) = {wJOHN, wMARY}
        /\ DictGet(summary.weekly_totals, wMARY) = 0
        /\ DictGet(summary.daily_hours, wMARY) = [c \in {2, 3} |-> 0]
        /\ summary.month = November2023

\* C4 witness: the scenario has been processed to its summary
C4_Witness == Done /\ Blocks = ScenarioInput

\* The cleaned name of the j-th row of the cell table
NameOfRow(j) == RowName(cells[j][2])

\* A name that marks a header row: empty, or DATE, DAY, IN or OUT in any case
IsHeaderName(n) == n = <<>> \/ upper(n) \in HeaderWords

\* The rows the row loop has been through
RowsDone == IF pc \in {"rows", "top", "done"} THEN 1..row_i ELSE {}

\* The names in the output so far, and in the summary once it is built
OutputNames ==
    Names(weekly_totals) \cup Names(daily_hours) \cup Range(top_performers)
    \cup (IF Done THEN Names(summary.weekly_totals) \cup Names(summary.daily_hours)
                       \cup Range(summary.top_performers)
          ELSE {})

\* C6: a row whose cleaned name is empty or is DATE, DAY, IN or OUT in any
\* case contributes no key to weekly_totals, daily_hours or top_performers:
\* every output name is the cleaned name of a row that is no header row, is
\* not empty and is none of those words.
C6_HeaderExclusion ==
    /\ \A n \in OutputNames : ~IsHeaderName(n)
    /\ OutputNames \subseteq {NameOfRow(j) : j \in {k \in RowsDone : ~IsHeaderName(NameOfRow(k))}}
    /\ \A j \in RowsDone : IsHeaderName(NameOfRow(j)) => NameOfRow(j) \notin OutputNames

\* C6 witness: a row named with a header word in another case has been passed
\* over and left no key
C6_Witness ==
    /\ Done
    /\ \E j \in RowsDone :
        /\ NameOfRow(j) # <<>>
        /\ NameOfRow(j) \notin HeaderWords
        /\ IsHeaderName(NameOfRow(j))
    /\ summary.weekly_totals = <<>>

\* The first date-pattern match of the text of the i-th block, <<>> for none
DateMatch(i) == search(Get(Blocks[i], "Text", <<>>), 1)

HasValidMonth(m) == m # <<>> /\ int(m[2]) \in 1..12

\* The label of a match with a valid month
LabelOf(m) == <<months[int(m[2])], <<"2","0">> \o m[3]>>

Least(S) == CHOOSE x \in S : \A y \in S : x <= y

\* C9 as stated: the label comes from the first date-pattern match in block
\* order, and the month is Unknown when no block text has a match.
C9_FirstMatchWins ==
    Done =>
        LET M == {i \in DOMAIN Blocks : DateMatch(i) # <<>>}
        IN  IF M = {} THEN summary.month = Unknown
            ELSE summary.month = (IF HasValidMonth(DateMatch(Least(M)))
                                      THEN LabelOf(DateMatch(Least(M)))
                                  ELSE Unknown)

\* C9 amended: the label comes from the first block, in list order, whose
\* first date-pattern match has a month in 1..12; no later block replaces it;
\* the month is Unknown when no block has such a match, so also when no
\* block text has a match at all.
C9_FirstValidMatchWins ==
    Done =>
        LET K == {i \in DOMAIN Blocks : HasValidMonth(DateMatch(i))}
        IN  IF K = {} THEN summary.month = Unknown
            ELSE summary.month = LabelOf(DateMatch(Least(K)))

\* C9 witness: the first block with a match has month 13 or 0, a later block
\* a valid month, and the summary carries the later block's label
C9_Witness ==
    /\ Done
    /\ \E i \in DOMAIN Blocks :
        /\ DateMatch(i) # <<>>
        /\ ~HasValidMonth(DateMatch(i))
        /\ \A j \in 1..(i - 1) : DateMatch(j) = <<>>
        /\ \E k \in DOMAIN Blocks :
            /\ k > i
            /\ HasValidMonth(DateMatch(k))
            /\ \A j \in (i + 1)..(k - 1) : ~HasValidMonth(DateMatch(j))
            /\ summary.month = LabelOf(DateMatch(k))

\* The rows gone through that were not passed over
KeptRows == {j \in RowsDone : ~IsSkippedName(NameOfRow(j))}

\* The last kept row with the name of row j
IsLastOfItsName(j) == \A k \in KeptRows : k > j => NameOfRow(k) # NameOfRow(j)

\* C10: weekly_totals and daily_hours always have the same keys; a name has
\* one entry, holding the hours of the last kept row with that name alone;
\* the number of employees is the number of distinct cleaned names.
C10_LastRowWins ==
    /\ Names(weekly_totals) = Names(daily_hours)
    /\ Len(weekly_totals) = Len(daily_hours)
    /\ Len(weekly_totals) = Cardinality({NameOfRow(j) : j \in KeptRows})
    /\ Names(weekly_totals) = {NameOfRow(j) : j \in KeptRows}
    /\ \A j \in KeptRows :
        IsLastOfItsName(j) =>
            /\ DictGet(weekly_totals, NameOfRow(j)) = RowWeeklyTotal(cells[j][2])
            /\ DictGet(daily_hours, NameOfRow(j)) = RowDailyHours(cells[j][2])
    /\ Done => (/\ summary.weekly_totals = weekly_totals
                /\ summary.daily_hours = daily_hours)

\* C10 witness: two kept rows clean to one name with different hours, and the
\* summary has the one entry
C10_Witness ==
    /\ Done
    /\ Len(summary.weekly_totals) = 1
    /\ \E j \in KeptRows, k \in KeptRows :
        /\ j < k
        /\ NameOfRow(j) = NameOfRow(k)
        /\ RowWeeklyTotal(cells[j][2]) # RowWeeklyTotal(cells[k][2])

====
